---------------------------- MODULE Spec2Model ----------------------------
(***************************************************************************)
(* ClusterEvaluator of sktime/benchmarking/evaluation/clustering/          *)
(* cluster_evaluator.py: construction (metric validation, configuration),  *)
(* evaluate_csv_data, get_estimator_name and _compute_metrics, with the    *)
(* six scikit-learn metric functions the dispatch table names.             *)
(*                                                                         *)
(* Python values are encoded as follows.  None is the empty tuple and an   *)
(* optional value x is <<x>>.  A Python list is a sequence, a dict is a    *)
(* function.  A score (a float) is an integer number of thousandths.       *)
(***************************************************************************)
EXTENDS Integers, Sequences, FiniteSets, TLC

VARIABLES
    phase,       \* "unconstructed" | "ready" | "construct_failed"
    heap,        \* list objects by identity: "arg" (the caller's), "dflt" (line 70)
    self,        \* attributes of the evaluator instance set so far
    init_error,  \* None, or the exception ClusterEvaluator.__init__ raised
    last,        \* the most recent evaluate_csv_data call: its file and outcome
    first        \* the first evaluate_csv_data call of a recorded run

vars == <<phase, heap, self, init_error, last, first>>

None == <<>>
Some(x) == <<x>>

(***************************************************************************)
(* Bounds of the model.                                                    *)
(***************************************************************************)
MaxMetrics == 2   \* longest metric list a caller passes
MaxPairs == 4     \* most label pairs in the prediction section of a file

(***************************************************************************)
(* Sequence helpers.                                                       *)
(***************************************************************************)
Range(s) == {s[i] : i \in DOMAIN s}

SeqsUpTo(S, n) == UNION {[1..k -> S] : k \in 0..n}

RECURSIVE SumFn(_)
SumFn(fn) ==
    IF DOMAIN fn = {} THEN 0
    ELSE LET x == CHOOSE y \in DOMAIN fn : TRUE
         IN  fn[x] + SumFn([z \in DOMAIN fn \ {x} |-> fn[z]])

Min(a, b) == IF a < b THEN a ELSE b
Max(a, b) == IF a < b THEN b ELSE a

(***************************************************************************)
(* Floats.  A score is kept to three decimals: One is 1.0.  RoundDiv(n, d) *)
(* is n / d rounded to the nearest integer and Quot(n, d) is n / d in      *)
(* thousandths, both for d > 0.  Ln[k] is the natural logarithm of k in    *)
(* thousandths (Ln[4] = 2 Ln[2], Ln[6] = Ln[2] + Ln[3], Ln[8] = 3 Ln[2],   *)
(* as for the real logarithm).                                             *)
(***************************************************************************)
One == 10 ^ 3

RoundDiv(n, d) == (2 * n + d) \div (2 * d)

Quot(n, d) == RoundDiv(One * n, d)

Ln == <<0, 693, 1099, 1386, 1609, 1792, 1946, 2079>>

RECURSIVE Factorial(_)
Factorial(n) == IF n <= 1 THEN 1 ELSE n * Factorial(n - 1)

Binomial(n, k) ==
    IF k < 0 \/ k > n THEN 0
    ELSE Factorial(n) \div (Factorial(k) * Factorial(n - k))

(***************************************************************************)
(* sklearn.metrics, as imported on lines 7-14.  labels_true and            *)
(* labels_pred are sequences of equal length n >= 1.                       *)
(***************************************************************************)
Count(labels, c) == Cardinality({k \in DOMAIN labels : labels[k] = c})

\* contingency_matrix: n_ij, the samples of class i put in cluster j
contingency_matrix(labels_true, labels_pred) ==
    [ij \in Range(labels_true) \X Range(labels_pred) |->
        Cardinality({k \in DOMAIN labels_true :
                        labels_true[k] = ij[1] /\ labels_pred[k] = ij[2]})]

\* pair_confusion_matrix: [tn, fp, fn, tp] over ordered pairs of samples
pair_confusion_matrix(labels_true, labels_pred) ==
    LET n == Len(labels_true)
        c == contingency_matrix(labels_true, labels_pred)
        sum_squares == SumFn([ij \in DOMAIN c |-> c[ij] * c[ij]])
        n_c == [i \in Range(labels_true) |-> Count(labels_true, i)]
        n_k == [j \in Range(labels_pred) |-> Count(labels_pred, j)]
        c11 == sum_squares - n
        c01 == SumFn([j \in DOMAIN n_k |-> n_k[j] * n_k[j]]) - sum_squares
        c10 == SumFn([i \in DOMAIN n_c |-> n_c[i] * n_c[i]]) - sum_squares
        c00 == n * n - c01 - c10 - sum_squares
    IN  [tn |-> c00, fp |-> c01, fn |-> c10, tp |-> c11]

rand_score(labels_true, labels_pred) ==
    LET c == pair_confusion_matrix(labels_true, labels_pred)
        numerator == c.tn + c.tp
        denominator == c.tn + c.fp + c.fn + c.tp
    IN  IF numerator = denominator \/ denominator = 0 THEN One
        ELSE Quot(numerator, denominator)

adjusted_rand_score(labels_true, labels_pred) ==
    LET c == pair_confusion_matrix(labels_true, labels_pred)
        num == 2 * (c.tp * c.tn - c.fn * c.fp)
        den == (c.tp + c.fn) * (c.fn + c.tn) + (c.tp + c.fp) * (c.fp + c.tn)
    IN  IF c.fn = 0 /\ c.fp = 0 THEN One ELSE Quot(num, den)

\* n times the mutual information, in thousandths of a nat
MutualInfoTimesN(labels_true, labels_pred) ==
    LET n == Len(labels_true)
        c == contingency_matrix(labels_true, labels_pred)
    IN  SumFn([ij \in {x \in DOMAIN c : c[x] > 0} |->
                c[ij] * (Ln[n] + Ln[c[ij]]
                         - Ln[Count(labels_true, ij[1])]
                         - Ln[Count(labels_pred, ij[2])])])

\* mutant: the mutual information in bits
mutual_info_score_bits(labels_true, labels_pred) ==
    Max(0, RoundDiv(One * MutualInfoTimesN(labels_true, labels_pred),
                    Ln[2] * Len(labels_true)))

mutual_info_score(labels_true, labels_pred) ==
    Max(0, RoundDiv(MutualInfoTimesN(labels_true, labels_pred), Len(labels_true)))

\* n times the entropy of a labelling, in thousandths of a nat
EntropyTimesN(labels) ==
    LET n == Len(labels)
    IN  SumFn([i \in Range(labels) |->
                Count(labels, i) * (Ln[n] - Ln[Count(labels, i)])])

entropy(labels) == RoundDiv(EntropyTimesN(labels), Len(labels))

normalized_mutual_info_score(labels_true, labels_pred) ==
    LET mi == MutualInfoTimesN(labels_true, labels_pred)
        normalizer == EntropyTimesN(labels_true) + EntropyTimesN(labels_pred)
    IN  IF Cardinality(Range(labels_true)) = 1 /\ Cardinality(Range(labels_pred)) = 1
        THEN One
        ELSE IF normalizer = 0 THEN 0
        ELSE Quot(2 * Max(0, mi), normalizer)

\* n! n times the expected mutual information of two labellings with the
\* class sizes of labels_true and labels_pred (hypergeometric model)
ExpectedMutualInfoTimesNFact(labels_true, labels_pred) ==
    LET n == Len(labels_true)
        a == [i \in Range(labels_true) |-> Count(labels_true, i)]
        b == [j \in Range(labels_pred) |-> Count(labels_pred, j)]
        term(i, j, nij) ==
            nij * (Ln[n] + Ln[nij] - Ln[a[i]] - Ln[b[j]])
                * Binomial(a[i], nij) * Binomial(n - a[i], b[j] - nij)
        cell(i, j) ==
            SumFn([nij \in Max(1, a[i] + b[j] - n) .. Min(a[i], b[j]) |->
                    term(i, j, nij)])
    IN  SumFn([j \in DOMAIN b |->
                Factorial(b[j]) * Factorial(n - b[j])
                    * SumFn([i \in DOMAIN a |-> cell(i, j)])])

adjusted_mutual_info_score(labels_true, labels_pred) ==
    LET n == Len(labels_true)
        f == Factorial(n)
        mi == f * Max(0, MutualInfoTimesN(labels_true, labels_pred))
        emi == ExpectedMutualInfoTimesNFact(labels_true, labels_pred)
        normalizer ==
            (f \div 2) * (EntropyTimesN(labels_true) + EntropyTimesN(labels_pred))
        denominator == normalizer - emi
        \* the smallest magnitude stands for the float epsilon
        clamped == IF denominator < 0 THEN Min(denominator, -1)
                   ELSE Max(denominator, 1)
    IN  IF Cardinality(Range(labels_true)) = 1 /\ Cardinality(Range(labels_pred)) = 1
        THEN One
        ELSE IF clamped < 0 THEN 0 - Quot(mi - emi, 0 - clamped)
        ELSE Quot(mi - emi, clamped)

accuracy_score(y_true, y_pred) ==
    Quot(Cardinality({k \in DOMAIN y_true : y_true[k] = y_pred[k]}), Len(y_true))

(***************************************************************************)
(* The dispatch table (lines 19-30) and the call of a metric callable.     *)
(***************************************************************************)
\* mutant: the entries of MI and NMI exchanged
evaluation_metrics_dict_swapped ==
    [RI  |-> "rand_score",
     ARI |-> "adjusted_rand_score",
     MI  |-> "normalized_mutual_info_score",
     NMI |-> "mutual_info_score",
     AMI |-> "adjusted_mutual_info_score",
     ACC |-> "accuracy_score"]

evaluation_metrics_dict ==
    [RI  |-> "rand_score",
     ARI |-> "adjusted_rand_score",
     MI  |-> "mutual_info_score",
     NMI |-> "normalized_mutual_info_score",
     AMI |-> "adjusted_mutual_info_score",
     ACC |-> "accuracy_score"]

Call(metric_callable, true_class, predicted_class) ==
    CASE metric_callable = "rand_score" ->
            rand_score(true_class, predicted_class)
      [] metric_callable = "adjusted_rand_score" ->
            adjusted_rand_score(true_class, predicted_class)
      [] metric_callable = "mutual_info_score" ->
            mutual_info_score(true_class, predicted_class)
      [] metric_callable = "normalized_mutual_info_score" ->
            normalized_mutual_info_score(true_class, predicted_class)
      [] metric_callable = "adjusted_mutual_info_score" ->
            adjusted_mutual_info_score(true_class, predicted_class)
      [] metric_callable = "accuracy_score" ->
            accuracy_score(true_class, predicted_class)

DefaultMetrics == <<"RI", "ARI", "MI", "NMI", "AMI", "ACC">>

(***************************************************************************)
(* Python literals of the parameter line.  A token is one lexical element  *)
(* of the line; PyLiteral gives the value ast.literal_eval builds from a   *)
(* literal token, as its type and its str() text.                          *)
(***************************************************************************)
PyLiteral ==
    [t \in {"'metric'", "'k'", "'dtw'", "''", "0", "2", "None", "False"} |->
        CASE t = "'metric'" -> [type |-> "str", text |-> "metric"]
          [] t = "'k'"      -> [type |-> "str", text |-> "k"]
          [] t = "'dtw'"    -> [type |-> "str", text |-> "dtw"]
          [] t = "''"       -> [type |-> "str", text |-> ""]
          [] t = "0"        -> [type |-> "int", text |-> "0"]
          [] t = "2"        -> [type |-> "int", text |-> "2"]
          [] t = "None"     -> [type |-> "NoneType", text |-> "None"]
          [] t = "False"    -> [type |-> "bool", text |-> "False"]]

PyStr(s) == [type |-> "str", text |-> s]

\* str(value), as an f-string formats it
Format(value) == value.text

\* bool(value)
Truthy(value) ==
    CASE value.type = "str"      -> value.text # ""
      [] value.type = "int"      -> value.text # "0"
      [] value.type = "NoneType" -> FALSE
      [] value.type = "bool"     -> value.text # "False"

\* ",".join(parts)
RECURSIVE Join(_)
Join(parts) ==
    IF Len(parts) = 0 THEN <<>>
    ELSE IF Len(parts) = 1 THEN parts[1]
    ELSE parts[1] \o <<",">> \o Join(Tail(parts))

\* the items k : v of a dict display, read left to right; None when the
\* tokens are no sequence of items
RECURSIVE DictItems(_)
DictItems(toks) ==
    IF Len(toks) < 3 THEN None
    ELSE IF ~ (toks[1] \in DOMAIN PyLiteral /\ toks[2] = ":"
               /\ toks[3] \in DOMAIN PyLiteral)
    THEN None
    ELSE LET item == <<PyLiteral[toks[1]], PyLiteral[toks[3]]>>
         IN  IF Len(toks) = 3 THEN Some(<<item>>)
             ELSE IF toks[4] # "," THEN None
             ELSE LET rest == DictItems(SubSeq(toks, 5, Len(toks)))
                  IN  IF rest = None THEN None
                      ELSE Some(<<item>> \o rest[1])

\* the dict a sequence of items builds: a later item replaces an earlier one
MakeDict(items) ==
    [k \in {items[i][1] : i \in DOMAIN items} |->
        LET i == CHOOSE j \in DOMAIN items :
                    /\ items[j][1] = k
                    /\ \A h \in DOMAIN items : items[h][1] = k => h <= j
        IN  items[i][2]]

\* ast.literal_eval on the tokens of a dict display
literal_eval(toks) ==
    IF Len(toks) < 2 \/ toks[1] # "{" \/ toks[Len(toks)] # "}"
    THEN [raised |-> "SyntaxError", value |-> None]
    ELSE IF Len(toks) = 2 THEN [raised |-> "", value |-> Some(MakeDict(<<>>))]
    ELSE LET items == DictItems(SubSeq(toks, 2, Len(toks) - 1))
         IN  IF items = None THEN [raised |-> "SyntaxError", value |-> None]
             ELSE [raised |-> "", value |-> Some(MakeDict(items[1]))]

(***************************************************************************)
(* ClusterEvaluator                                                        *)
(***************************************************************************)
\* pd.DataFrame(temp[[0, 1]]).to_numpy(): the columns labelled 0 and 1
SelectColumns(rows, columns) ==
    [r \in DOMAIN rows |-> [c \in DOMAIN columns |-> rows[r][columns[c] + 1]]]

\* mutant: numpy_pred[0:], the header row kept
SkipNone(numpy_pred) == numpy_pred

\* numpy_pred[1:]
SkipFirst(numpy_pred) == SubSeq(numpy_pred, 2, Len(numpy_pred))

true_class(numpy_pred) ==
    [k \in DOMAIN SkipFirst(numpy_pred) |-> SkipFirst(numpy_pred)[k][1]]

predicted_class(numpy_pred) ==
    [k \in DOMAIN SkipFirst(numpy_pred) |-> SkipFirst(numpy_pred)[k][2]]

\* the loop of lines 144-146 over self.metrics from position i on
RECURSIVE MetricLoop(_, _, _, _, _)
MetricLoop(metrics, i, y_true, y_pred, metric_scores) ==
    IF i > Len(metrics)
    THEN [raised |-> "", key |-> "", scores |-> metric_scores,
          true_class |-> y_true, predicted_class |-> y_pred]
    ELSE IF metrics[i] \notin DOMAIN evaluation_metrics_dict
    THEN [raised |-> "KeyError", key |-> metrics[i], scores |-> metric_scores,
          true_class |-> y_true, predicted_class |-> y_pred]
    ELSE MetricLoop(metrics, i + 1, y_true, y_pred,
                    [m \in DOMAIN metric_scores \cup {metrics[i]} |->
                        IF m = metrics[i]
                        THEN Call(evaluation_metrics_dict[metrics[i]], y_true, y_pred)
                        ELSE metric_scores[m]])

\* mutant: the loop starts at the second metric
compute_metrics_from_second(metrics, predictions_df) ==
    MetricLoop(metrics, 2, true_class(predictions_df),
               predicted_class(predictions_df), <<>>)

\* the scores of the previous call when it computed any on as many rows
Memo(metrics_score, rows) ==
    IF /\ last # None
       /\ last[1].result.computed # None
       /\ Len(last[1].result.labels[1][1]) + 1 = rows
    THEN [metrics_score EXCEPT !.scores = last[1].result.computed[1]]
    ELSE metrics_score

\* mutant: the scores of the previous call reused for a frame of the same
\* number of rows
compute_metrics_memo(metrics, predictions_df) ==
    Memo(MetricLoop(metrics, 1, true_class(predictions_df),
                    predicted_class(predictions_df), <<>>),
         Len(predictions_df))

\* lines 140-148, predictions_df.to_numpy() being the rows themselves
compute_metrics(metrics, predictions_df) ==
    MetricLoop(metrics, 1, true_class(predictions_df),
               predicted_class(predictions_df), <<>>)

\* mutant: the suffix decided by the truth value of the parameter
get_estimator_name_truthy(naming_parameter_key, estimator_details, estimator_params) ==
    LET estimator_name == estimator_details[2]
    IN  IF naming_parameter_key # None
        THEN IF PyStr(naming_parameter_key[1]) \in DOMAIN estimator_params
             THEN [raised |-> "", key |-> "",
                   name |->
                     IF Truthy(estimator_params[PyStr(naming_parameter_key[1])])
                     THEN estimator_name \o "-"
                          \o Format(estimator_params[PyStr(naming_parameter_key[1])])
                     ELSE estimator_name]
             ELSE [raised |-> "KeyError", key |-> naming_parameter_key[1], name |-> ""]
        ELSE [raised |-> "", key |-> "", name |-> estimator_name]

\* mutant: the bare identity when the key is absent
get_estimator_name_fallback(naming_parameter_key, estimator_details, estimator_params) ==
    LET estimator_name == estimator_details[2]
    IN  IF naming_parameter_key # None
           /\ PyStr(naming_parameter_key[1]) \in DOMAIN estimator_params
        THEN [raised |-> "", key |-> "",
              name |-> estimator_name \o "-"
                       \o Format(estimator_params[PyStr(naming_parameter_key[1])])]
        ELSE [raised |-> "", key |-> "", name |-> estimator_name]

get_estimator_name(naming_parameter_key, estimator_details, estimator_params) ==
    LET estimator_name == estimator_details[2]
    IN  IF naming_parameter_key # None
        THEN IF PyStr(naming_parameter_key[1]) \in DOMAIN estimator_params
             THEN [raised |-> "", key |-> "",
                   name |-> estimator_name \o "-"
                            \o Format(estimator_params[PyStr(naming_parameter_key[1])])]
             ELSE [raised |-> "KeyError", key |-> naming_parameter_key[1], name |-> ""]
        ELSE [raised |-> "", key |-> "", name |-> estimator_name]

\* the outcome of a call that raises; computed is what _compute_metrics had
\* returned by then and labels the label lists it had built
Raised(exc, key, computed, labels) ==
    [outcome |-> "raised", exc |-> exc, key |-> key, record |-> None,
     computed |-> computed, labels |-> labels]

\* lines 112-113, and how an exception of lines 108, 111 or 112 leaves the
\* call
Return(first_line, parameters, metrics_score, estimator_name) ==
    IF parameters.raised # "" THEN Raised(parameters.raised, "", None, None)
    ELSE IF metrics_score.raised # ""
    THEN Raised(metrics_score.raised, metrics_score.key, None,
                Some(<<metrics_score.true_class, metrics_score.predicted_class>>))
    ELSE IF estimator_name.raised # ""
    THEN Raised(estimator_name.raised, estimator_name.key,
                Some(metrics_score.scores),
                Some(<<metrics_score.true_class, metrics_score.predicted_class>>))
    ELSE [outcome |-> "returned", exc |-> "", key |-> "",
          record |-> Some(<<first_line[1], first_line[2], estimator_name.name,
                            metrics_score.scores>>),
          computed |-> Some(metrics_score.scores),
          labels |-> Some(<<metrics_score.true_class,
                            metrics_score.predicted_class>>)]

\* lines 108 and 112 on the parameter line
NameFrom(naming_parameter_key, first_line, parameters) ==
    IF parameters.raised # "" THEN [raised |-> "", key |-> "", name |-> ""]
    ELSE get_estimator_name(naming_parameter_key, first_line, parameters.value[1])

\* lines 106-113 on the value the reader returns for the file
evaluate_csv_data(metrics, naming_parameter_key, data) ==
    Return(data.first_line_comment,
           literal_eval(Join(data.estimator_parameters)),
           compute_metrics(metrics, SelectColumns(data.predictions, <<0, 1>>)),
           NameFrom(naming_parameter_key, data.first_line_comment,
                    literal_eval(Join(data.estimator_parameters))))

(***************************************************************************)
(* ClusterEvaluator.__init__                                               *)
(***************************************************************************)
\* mutant: the last name of the list the dispatch table does not hold
RECURSIVE LastInvalid(_)
LastInvalid(metrics) ==
    IF metrics = <<>> THEN None
    ELSE IF metrics[Len(metrics)] \notin DOMAIN evaluation_metrics_dict
    THEN Some(metrics[Len(metrics)])
    ELSE LastInvalid(SubSeq(metrics, 1, Len(metrics) - 1))

\* the first name of the list the dispatch table does not hold, if any
RECURSIVE FirstInvalid(_)
FirstInvalid(metrics) ==
    IF metrics = <<>> THEN None
    ELSE IF Head(metrics) \notin DOMAIN evaluation_metrics_dict
    THEN Some(Head(metrics))
    ELSE FirstInvalid(Tail(metrics))

ErrorMessage(metric) ==
    "The metric: " \o metric
        \o " is invalid please check the list of available metrics to use."

\* mutant: "if not metrics"
UseDefaultWhenFalsy(metrics_arg) == metrics_arg = None \/ metrics_arg[1] = <<>>

\* line 69: whether the default list replaces the argument
UseDefault(metrics_arg) == metrics_arg = None

\* lines 69-85: the attributes set, the list objects made and the exception
init(metrics_arg, naming_parameter_key) ==
    LET ref == IF UseDefault(metrics_arg) THEN "dflt" ELSE "arg"
        objects ==
            [o \in (IF metrics_arg = None THEN {} ELSE {"arg"})
                   \cup (IF ref = "dflt" THEN {"dflt"} ELSE {}) |->
                IF o = "dflt" THEN DefaultMetrics ELSE metrics_arg[1]]
        invalid == FirstInvalid(objects[ref])
    IN  IF invalid # None
        THEN [raised |-> Some([type |-> "ValueError",
                               message |-> ErrorMessage(invalid[1])]),
              heap |-> objects,
              self |-> [metrics |-> "unset", naming_parameter_key |-> None,
                        base_initialised |-> FALSE]]
        ELSE [raised |-> None,
              heap |-> objects,
              self |-> [metrics |-> ref,
                        naming_parameter_key |-> naming_parameter_key,
                        base_initialised |-> TRUE]]

(***************************************************************************)
(* Result files.  A file is described by what its writer knew: the dataset *)
(* name, the estimator identity, the parameter mapping (None for the free  *)
(* text "No Parameter Info") and the label pairs.  ResultFile is the value *)
(* the reader returns for it: the comma-split first and second lines and   *)
(* the prediction rows, the first of which is a header.                    *)
(***************************************************************************)
Labels == {"a", "b", "c"}

HeaderRow == <<"y_true", "y_pred">>

\* repr(value), as str() of a dict writes its keys and values
Repr(value) ==
    IF value.type = "str" THEN "'" \o value.text \o "'" ELSE value.text

RECURSIVE ItemTokens(_)
ItemTokens(items) ==
    IF items = <<>> THEN <<>>
    ELSE <<Repr(items[1][1]), ":", Repr(items[1][2])>>
         \o (IF Len(items) = 1 THEN <<>> ELSE <<",">> \o ItemTokens(Tail(items)))

\* the second line of the file
ParameterLine(params) ==
    IF params = None THEN <<"No", "Parameter", "Info">>
    ELSE <<"{">> \o ItemTokens(params[1]) \o <<"}">>

\* the fields of a line, split at its commas
RECURSIVE CsvSplit(_)
CsvSplit(toks) ==
    IF \E i \in DOMAIN toks : toks[i] = ","
    THEN LET i == CHOOSE j \in DOMAIN toks :
                    toks[j] = "," /\ \A h \in 1..(j - 1) : toks[h] # ","
         IN  <<SubSeq(toks, 1, i - 1)>> \o CsvSplit(SubSeq(toks, i + 1, Len(toks)))
    ELSE <<toks>>

ResultFile(known) ==
    [first_line_comment |-> <<known.dataset, known.identity, "TEST">>,
     estimator_parameters |-> CsvSplit(ParameterLine(known.params)),
     predictions |->
        <<HeaderRow>>
        \o [k \in DOMAIN known.pairs |->
                IF known.extra THEN known.pairs[k] \o <<"0.5">> ELSE known.pairs[k]]]

PyInt(text) == [type |-> "int", text |-> text]
PyNone == [type |-> "NoneType", text |-> "None"]
PyFalse == [type |-> "bool", text |-> "False"]

\* the parameter mappings the files are written from, as their items in
\* the order written; None is the free text
KnownParams ==
    {None,
     Some(<<>>),
     Some(<< <<PyStr("metric"), PyStr("dtw")>> >>),
     Some(<< <<PyStr("metric"), PyInt("0")>> >>),
     Some(<< <<PyStr("metric"), PyStr("")>> >>),
     Some(<< <<PyStr("metric"), PyNone>> >>),
     Some(<< <<PyStr("metric"), PyFalse>> >>),
     Some(<< <<PyStr("k"), PyInt("2")>> >>),
     Some(<< <<PyStr("metric"), PyStr("dtw")>>, <<PyStr("k"), PyInt("2")>> >>),
     Some(<< <<PyStr("metric"), PyStr("dtw")>>, <<PyStr("metric"), PyInt("0")>> >>)}

\* three files: one whose parameters hold the key "metric", one whose
\* parameters do not, one whose second line is free text
ConfigFiles ==
    [dataset : {"Beef"}, identity : {"kmeans"},
     params : {None, Some(<< <<PyStr("metric"), PyStr("dtw")>> >>),
               Some(<< <<PyStr("k"), PyInt("2")>> >>)},
     pairs : {<< <<"a", "a">>, <<"a", "b">> >>}, extra : {FALSE}]

\* files with every parameter line and three prediction sections
ParamFiles ==
    [dataset : {"Beef"}, identity : {"kmeans"}, params : KnownParams,
     pairs : {<< <<"a", "a">> >>, << <<"a", "b">> >>}, extra : {FALSE}]
    \cup
    [dataset : {"Beef"}, identity : {"kmeans"}, params : KnownParams,
     pairs : {<< <<"a", "b">>, <<"b", "b">> >>}, extra : {TRUE}]

\* every prediction section of up to MaxPairs pairs of the labels a and b,
\* and of up to MaxPairs - 1 pairs of the labels a, b and c
LabelSections ==
    (SeqsUpTo({"a", "b"} \X {"a", "b"}, MaxPairs)
        \cup SeqsUpTo(Labels \X Labels, MaxPairs - 1)) \ {<<>>}

LabelFiles ==
    [dataset : {"Beef"}, identity : {"kmedoids"},
     params : {Some(<< <<PyStr("metric"), PyStr("dtw")>> >>)},
     pairs : LabelSections, extra : BOOLEAN]

(***************************************************************************)
(* What a caller passes to the constructor.                                *)
(***************************************************************************)
MetricNames == Range(DefaultMetrics) \cup {"FM", "SC"}

MetricLists == SeqsUpTo(MetricNames, MaxMetrics)

MetricArgs == {None} \cup {Some(m) : m \in MetricLists}

KeyArgs == {None, Some("metric")}

(***************************************************************************)
(* The state machine.                                                      *)
(***************************************************************************)
Unset == [metrics |-> "unset", naming_parameter_key |-> None,
          base_initialised |-> FALSE]

Init ==
    /\ phase = "unconstructed"
    /\ heap = <<>>
    /\ self = Unset
    /\ init_error = None
    /\ last = None
    /\ first = None

\* ClusterEvaluator(..., metrics=metrics_arg, naming_parameter_key=key)
Construct(metrics_arg, naming_parameter_key) ==
    /\ phase = "unconstructed"
    /\ LET r == init(metrics_arg, naming_parameter_key)
       IN  /\ phase' = IF r.raised = None THEN "ready" ELSE "construct_failed"
           /\ heap' = r.heap
           /\ self' = r.self
           /\ init_error' = r.raised
    /\ UNCHANGED <<last, first>>

\* the list self.metrics refers to
Metrics == heap[self.metrics]

\* a call: the file, the configuration it found and its outcome
CallOf(known) ==
    [known |-> known,
     config |-> [metrics |-> Metrics,
                 naming_parameter_key |-> self.naming_parameter_key],
     result |-> evaluate_csv_data(Metrics, self.naming_parameter_key,
                                  ResultFile(known))]

\* evaluator.evaluate_csv_data(csv_path)
EvaluateCsvData(known) ==
    /\ phase = "ready"
    /\ last' = Some(CallOf(known))
    /\ UNCHANGED <<phase, heap, self, init_error, first>>

\* the same call, in a run that remembers its first call
EvaluateRecorded(known) ==
    /\ phase = "ready"
    /\ last' = Some(CallOf(known))
    /\ first' = IF first = None THEN Some(CallOf(known)) ELSE first
    /\ UNCHANGED <<phase, heap, self, init_error>>

\* the first call on a freshly constructed evaluator
EvaluateFresh(files) ==
    /\ last = None
    /\ \E f \in files : EvaluateCsvData(f)

\* the caller appends a name to the list it passed as metrics
CallerAppends(name) ==
    /\ phase = "ready"
    /\ "arg" \in DOMAIN heap
    /\ Len(heap["arg"]) < MaxMetrics
    /\ heap' = [heap EXCEPT !["arg"] = Append(@, name)]
    /\ UNCHANGED <<phase, self, init_error, last, first>>

Next ==
    \/ \E m \in MetricArgs, k \in KeyArgs : Construct(m, k)
    \/ \E f \in ParamFiles : EvaluateCsvData(f)

Spec == Init /\ [][Next]_vars

\* with a caller that keeps the list it passed and appends to it
NextAlias ==
    \/ \E m \in MetricArgs, k \in KeyArgs : Construct(m, k)
    \/ \E f \in ConfigFiles : EvaluateCsvData(f)
    \/ \E n \in MetricNames : CallerAppends(n)

SpecAlias == Init /\ [][NextAlias]_vars

\* the state a successful construction leaves
Constructed(metrics_arg, naming_parameter_key) ==
    LET r == init(metrics_arg, naming_parameter_key)
    IN  /\ phase = "ready"
        /\ heap = r.heap
        /\ self = r.self
        /\ init_error = None
        /\ last = None
        /\ first = None

\* one call of an evaluator constructed without a metric list, on every
\* prediction section
InitLabels == \E k \in {None, Some("metric")} : Constructed(None, k)

NextLabels == EvaluateFresh(LabelFiles)

SpecLabels == InitLabels /\ [][NextLabels]_vars

\* sequences of calls on one evaluator, the first call remembered
InitRepeat ==
    \E m \in {None, Some(<<"ARI", "ACC">>)}, k \in {None, Some("metric")} :
        Constructed(m, k)

NextRepeat == \E f \in ParamFiles : EvaluateRecorded(f)

SpecRepeat == InitRepeat /\ [][NextRepeat]_vars

(***************************************************************************)
(* Properties.                                                             *)
(***************************************************************************)
SixNames == {"RI", "ARI", "MI", "NMI", "AMI", "ACC"}

\* the list the constructor was given, or the default list
GivenList == IF "arg" \in DOMAIN heap THEN heap["arg"] ELSE heap["dflt"]

\* whether the file's parameter mapping holds a key
HasKey(known, key) ==
    /\ known.params # None
    /\ \E i \in DOMAIN known.params[1] : known.params[1][i][1] = PyStr(key)

\* the value the file's parameter mapping holds under a key: that of the
\* last item written with the key
ValueUnder(known, key) ==
    LET items == known.params[1]
        i == CHOOSE j \in DOMAIN items :
                /\ items[j][1] = PyStr(key)
                /\ \A h \in DOMAIN items : items[h][1] = PyStr(key) => h <= j
    IN  items[i][2]

\* a file on which evaluation is defined: its second line is a parameter
\* mapping, which holds the naming key when one is configured
WellFormedFor(known, naming_parameter_key) ==
    /\ known.params # None
    /\ naming_parameter_key # None => HasKey(known, naming_parameter_key[1])

\* C1: construction succeeds for every list of names of the six metrics,
\* and a call on a well-formed file returns scores whose keys are exactly
\* the configured names
C1_KeysAreConfigured ==
    /\ (phase # "unconstructed" /\ Range(GivenList) \subseteq SixNames)
            => phase = "ready"
    /\ (last # None /\ WellFormedFor(last[1].known, self.naming_parameter_key))
            => /\ last[1].result.outcome = "returned"
               /\ DOMAIN last[1].result.record[1][4] = Range(GivenList)

C1_Witness ==
    /\ phase = "ready"
    /\ GivenList = <<"NMI", "ACC">>
    /\ last # None
    /\ last[1].result.outcome = "returned"
    /\ DOMAIN last[1].result.record[1][4] = {"NMI", "ACC"}

\* C2: a list with a name outside the six makes construction fail with a
\* ValueError naming the first such name in list order, with no attribute
\* stored, the base evaluator not initialised and no file processed; no
\* evaluator with such a name is ready
C2_InvalidMetricFailsFast ==
    /\ (phase # "unconstructed" /\ ~ (Range(GivenList) \subseteq SixNames))
            => phase = "construct_failed"
    /\ phase = "construct_failed" =>
        LET i == CHOOSE j \in DOMAIN GivenList :
                    /\ GivenList[j] \notin SixNames
                    /\ \A h \in 1..(j - 1) : GivenList[h] \in SixNames
        IN  /\ init_error # None
            /\ init_error[1].type = "ValueError"
            /\ init_error[1].message =
                  "The metric: " \o GivenList[i]
                  \o " is invalid please check the list of available metrics to use."
            /\ self.metrics = "unset"
            /\ self.naming_parameter_key = None
            /\ ~ self.base_initialised
            /\ last = None

C2_Witness ==
    /\ phase = "construct_failed"
    /\ GivenList = <<"SC", "FM">>
    /\ init_error[1].message =
          "The metric: SC is invalid please check the list of available metrics to use."

\* C3: without a metric list the evaluator holds the six metrics and its
\* calls return scores for all six; a given list, the empty one included,
\* is the list the evaluator holds
C3_DefaultIsAllSix ==
    /\ (phase # "unconstructed" /\ "arg" \notin DOMAIN heap) =>
        /\ phase = "ready"
        /\ heap[self.metrics] = <<"RI", "ARI", "MI", "NMI", "AMI", "ACC">>
        /\ (last # None /\ last[1].result.outcome = "returned")
                => DOMAIN last[1].result.record[1][4] = SixNames
    /\ (phase = "ready" /\ "arg" \in DOMAIN heap) =>
        /\ self.metrics = "arg"
        /\ "dflt" \notin DOMAIN heap
        /\ (last # None /\ last[1].result.outcome = "returned")
                => DOMAIN last[1].result.record[1][4] = Range(heap["arg"])

C3_Witness ==
    /\ phase = "ready"
    /\ "arg" \notin DOMAIN heap
    /\ last # None
    /\ last[1].result.outcome = "returned"
    /\ DOMAIN last[1].result.record[1][4] = SixNames

\* C4: the display name is the identity field unchanged when no naming key
\* is configured, and the identity, "-" and the text of the value under the
\* key when one is configured and present, for falsy values too
C4_DisplayName ==
    (last # None /\ last[1].result.outcome = "returned") =>
        LET known == last[1].known
            key == self.naming_parameter_key
            name == last[1].result.record[1][3]
        IN  IF key = None THEN name = known.identity
            ELSE /\ HasKey(known, key[1])
                 /\ name = known.identity \o "-" \o ValueUnder(known, key[1]).text

C4_Witness ==
    /\ last # None
    /\ self.naming_parameter_key = Some("metric")
    /\ last[1].known.params = Some(<< <<PyStr("metric"), PyInt("0")>> >>)
    /\ last[1].result.outcome = "returned"
    /\ last[1].result.record[1][3] = "kmeans-0"

\* C5: with a naming key configured and absent from the file's parameter
\* mapping the call raises a KeyError for that key and returns no record,
\* after the scores were computed, and leaves the configuration as the call
\* found it, the evaluator ready
C5_AbsentKeyRaises ==
    (/\ last # None
     /\ last[1].config.naming_parameter_key # None
     /\ last[1].known.params # None
     /\ ~ HasKey(last[1].known, last[1].config.naming_parameter_key[1])) =>
        /\ last[1].result.outcome = "raised"
        /\ last[1].result.exc = "KeyError"
        /\ last[1].result.key = last[1].config.naming_parameter_key[1]
        /\ last[1].result.record = None
        /\ last[1].result.computed # None
        /\ DOMAIN last[1].result.computed[1] = Range(last[1].config.metrics)
        /\ phase = "ready"
        /\ heap[self.metrics] = last[1].config.metrics
        /\ self.naming_parameter_key = last[1].config.naming_parameter_key

C5_Witness ==
    /\ last # None
    /\ self.naming_parameter_key = Some("metric")
    /\ last[1].known.params = Some(<< <<PyStr("k"), PyInt("2")>> >>)
    /\ last[1].result.exc = "KeyError"
    /\ last[1].result.record = None
    /\ DOMAIN last[1].result.computed[1] = {"RI", "ACC"}

\* the label pairs a file was written with, as the two label sequences
KnownTrue(known) == [k \in DOMAIN known.pairs |-> known.pairs[k][1]]

KnownPred(known) == [k \in DOMAIN known.pairs |-> known.pairs[k][2]]

\* the reference value of a metric, by its short name
Reference(name, y_true, y_pred) ==
    CASE name = "RI" -> rand_score(y_true, y_pred)
      [] name = "ARI" -> adjusted_rand_score(y_true, y_pred)
      [] name = "MI" -> mutual_info_score(y_true, y_pred)
      [] name = "NMI" -> normalized_mutual_info_score(y_true, y_pred)
      [] name = "AMI" -> adjusted_mutual_info_score(y_true, y_pred)
      [] name = "ACC" -> accuracy_score(y_true, y_pred)

\* C6: the record a call returns has four fields: the dataset name and the
\* estimator identity the file was written with, the display name derived
\* from the identity and the parameters, and the scores, which are the
\* reference values of the configured metrics on the file's label pairs
C6_RecordRoundTrip ==
    (last # None /\ last[1].result.outcome = "returned") =>
        LET known == last[1].known
            record == last[1].result.record[1]
        IN  /\ Len(record) = 4
            /\ record[1] = known.dataset
            /\ record[2] = known.identity
            /\ record[3] = IF self.naming_parameter_key = None
                           THEN known.identity
                           ELSE known.identity \o "-"
                                \o ValueUnder(known, self.naming_parameter_key[1]).text
            /\ DOMAIN record[4] = Range(Metrics)
            /\ \A m \in DOMAIN record[4] :
                    record[4][m] = Reference(m, KnownTrue(known), KnownPred(known))

C6_Witness ==
    /\ last # None
    /\ last[1].known.pairs = << <<"a", "a">>, <<"a", "b">>, <<"b", "a">>, <<"b", "b">> >>
    /\ last[1].known.extra
    /\ self.naming_parameter_key = Some("metric")
    /\ last[1].result.record =
          Some(<<"Beef", "kmedoids", "kmedoids-dtw",
                 [RI |-> 333, ARI |-> -500, MI |-> 0, NMI |-> 0, AMI |-> -500,
                  ACC |-> 500]>>)

\* a call that returned on a file whose true and predicted labels are the
\* same sequence
IdenticalLabels ==
    /\ last # None
    /\ last[1].result.outcome = "returned"
    /\ KnownTrue(last[1].known) = KnownPred(last[1].known)

\* every label of the sequence occurs once, among two samples or more
AllDistinct(labels) ==
    /\ Len(labels) >= 2
    /\ \A i, j \in DOMAIN labels : labels[i] = labels[j] => i = j

\* C7 as stated: on identical true and predicted labels all six metrics
\* score 1.0
C7_AllSixAreOne ==
    IdenticalLabels =>
        \A m \in SixNames : last[1].result.record[1][4][m] = One

\* C7 as amended: on identical true and predicted labels RI, ARI, NMI and
\* ACC score 1.0, AMI scores 1.0 unless every label occurs once among two
\* samples or more, and MI is the entropy of the labels in nats
C7_IdenticalLabels ==
    IdenticalLabels =>
        LET scores == last[1].result.record[1][4]
            labels == KnownTrue(last[1].known)
        IN  /\ \A m \in {"RI", "ARI", "NMI", "ACC"} : scores[m] = One
            /\ ~ AllDistinct(labels) => scores["AMI"] = One
            /\ scores["MI"] = entropy(labels)
            /\ Cardinality(Range(labels)) = 1 => scores["MI"] = 0
            /\ (Len(labels) = 2 * Count(labels, "a")
                    /\ Len(labels) = 2 * Count(labels, "b"))
                    => scores["MI"] = Ln[2]

C7_Witness ==
    /\ IdenticalLabels
    /\ last[1].known.pairs = << <<"a", "a">>, <<"b", "b">>, <<"a", "a">>, <<"b", "b">> >>
    /\ last[1].result.record[1][4] =
          [RI |-> 1000, ARI |-> 1000, MI |-> 693, NMI |-> 1000, AMI |-> 1000,
           ACC |-> 1000]

C9_HeaderRowSkipped ==
    last # None =>
        LET rows == ResultFile(last[1].known).predictions
            labels == last[1].result.labels[1]
        IN  /\ last[1].result.labels # None
            /\ Len(labels[1]) = Len(rows) - 1
            /\ Len(labels[2]) = Len(rows) - 1
            /\ \A i \in 1..(Len(rows) - 1) :
                    /\ labels[1][i] = rows[i + 1][1]
                    /\ labels[2][i] = rows[i + 1][2]
            /\ last[1].result.outcome = "returned"
            /\ \A m \in SixNames :
                    last[1].result.record[1][4][m] =
                        Reference(m, [i \in 1..(Len(rows) - 1) |-> rows[i + 1][1]],
                                  [i \in 1..(Len(rows) - 1) |-> rows[i + 1][2]])

C9_Witness ==
    /\ last # None
    /\ ResultFile(last[1].known).predictions =
          << <<"y_true", "y_pred">>, <<"a", "b", "0.5">>, <<"c", "b", "0.5">>,
             <<"a", "a", "0.5">> >>
    /\ last[1].result.labels = Some(<< <<"a", "c", "a">>, <<"b", "b", "a">> >>)

\* C10: every name of the list of a constructed evaluator is a key of the
\* dispatch table, also after the caller changed the list it passed, and
\* no call fails in the dispatch lookup
C10_MetricsAreDispatchKeys ==
    phase = "ready" =>
        /\ Range(Metrics) \subseteq DOMAIN evaluation_metrics_dict
        /\ last # None =>
                ~ (/\ last[1].result.exc = "KeyError"
                   /\ last[1].result.computed = None)

=============================================================================
